---- MODULE Spec2Model ----
(***************************************************************************)
(* Model of volatility_report.py: the per-day candle fetch, the bar series *)
(* built by process_data (time index, sort, rolling returns), the event    *)
(* filter and bucket table of analyze_volatility, and the report loop of   *)
(* main.                                                                   *)
(*                                                                         *)
(* Prices are integers and a return is an exact extended rational          *)
(* (num/den, +inf, -inf or NaN): pandas computes close / close.shift(n) - 1*)
(* in binary floating point, whose rounding is not modelled.  The bucket   *)
(* bounds 0.005 ... 0.020 are the rationals 5/1000 ... 20/1000.            *)
(***************************************************************************)
EXTENDS Integers, Sequences, FiniteSets, TLC

\* Minutes of candles one fetched day holds (a real day holds 1440).
DayMinutes == 6

\* ------------------------------------------------------------ configuration
SYMBOLS == <<"BTCUSDT", "ETHUSDT">>
\* Day of December 2025 of START_DATE and END_DATE.
START_DATE == 11
END_DATE == 13

\* get_date_range: every date from start to end, inclusive.
get_date_range(start, end) == [i \in 1..(end - start + 1) |-> start + (i - 1)]

\* The windows list of main: (win_id, win_col, win_title), with the nominal minutes
\* that process_data multiplies by factor for that column.
windows ==
  << [id |-> "5m",  col |-> "ret_5m",  title |-> "5 Minute Window",  minutes |-> 5],
     [id |-> "10m", col |-> "ret_10m", title |-> "10 Minute Window", minutes |-> 10],
     [id |-> "15m", col |-> "ret_15m", title |-> "15 Minute Window", minutes |-> 15] >>

\* ------------------------------------------------------------ float values
NaN == [kind |-> "nan", num |-> 0, den |-> 1]
PosInf == [kind |-> "inf", num |-> 1, den |-> 0]
NegInf == [kind |-> "inf", num |-> -1, den |-> 0]
\* The finite value n/d, d > 0.
Num(n, d) == [kind |-> "num", num |-> n, den |-> d]
\* A literal written in thousandths: 0.005 is Milli(5).
Milli(k) == Num(k, 1000)

IsNaN(a) == a.kind = "nan"
IsInf(a) == a.kind = "inf"
Neg(a) == [a EXCEPT !.num = -a.num]
Abs(a) == IF a.num < 0 THEN Neg(a) ELSE a

\* IEEE comparisons: every comparison with NaN is false.
Lt(a, b) ==
  /\ ~IsNaN(a) /\ ~IsNaN(b)
  /\ IF IsInf(a) /\ IsInf(b) THEN a.num < b.num
     ELSE IF IsInf(a) THEN a.num < 0
     ELSE IF IsInf(b) THEN b.num > 0
     ELSE a.num * b.den < b.num * a.den
Le(a, b) ==
  /\ ~IsNaN(a) /\ ~IsNaN(b)
  /\ ~Lt(b, a)
Gt(a, b) == Lt(b, a)
Ge(a, b) == Le(b, a)

\* cur / ref - 1 in float arithmetic: x/0 is +-inf, 0/0 is NaN, no exception.
PctOf(cur, ref) ==
  IF ref = 0
    THEN (IF cur = 0 THEN NaN ELSE IF cur > 0 THEN PosInf ELSE NegInf)
    ELSE IF ref > 0 THEN Num(cur - ref, ref) ELSE Num(ref - cur, -ref)

\* pct_change with the shift one position too long.
pct_change_one_late(close, periods) ==
  [i \in 1..Len(close) |->
     IF i <= periods + 1 THEN NaN ELSE PctOf(close[i], close[i - periods - 1])]

\* Series.pct_change(periods): position i against position i - periods, NaN where
\* there is no such position.
pct_change(close, periods) ==
  [i \in 1..Len(close) |->
     IF i <= periods THEN NaN ELSE PctOf(close[i], close[i - periods])]

\* ------------------------------------------------------------ the candle API
\* What the API serves is outside the program.  One day's answer to a request is
\* an outcome: the request fails (a requests RequestException), or it succeeds
\* with the day's candles of a price path, in one of the layouts below.
Err == [kind |-> "error", path |-> "none", layout |-> "none"]
Ok(p, l) == [kind |-> "ok", path |-> p, layout |-> l]

\* Close price of a path at minute m (0-based) of its day.
mixA == <<1005, 1006, 994, 995, 1004, 0>>
mixB == <<1007, 992, 1010, 1015, 980, 1020>>
PathClose(p, m) ==
  CASE p = "ramp" -> 100 + m
    [] p = "mixA" -> (IF m < Len(mixA) THEN mixA[m + 1] ELSE 1000)
    [] p = "mixB" -> (IF m < Len(mixB) THEN mixB[m + 1] ELSE 1000)
    [] OTHER -> 1000

\* Bars the API holds per minute at a resolution (one a minute for a resolution
\* other than "1m" and "1s" too).
BarsPerMinute(resolution) == IF resolution = "1m" THEN 1 ELSE IF resolution = "1s" THEN 60 ELSE 1
DayStart(date) == (date - START_DATE) * DayMinutes * 60

\* Bar k (0-based) of a day.
Bar(resolution, date, p, k) ==
  [time |-> DayStart(date) + k * (60 \div BarsPerMinute(resolution)),
   close |-> PathClose(p, k \div BarsPerMinute(resolution))]

Reverse(s) == [i \in 1..Len(s) |-> s[Len(s) + 1 - i]]

\* The "data" list of a successful response.  asc: in time order.  rev: newest
\* first.  dup: preceded by a record that repeats the timestamp of the bar before
\* the day's first one, with another close.
Candles(resolution, date, o) ==
  LET n == DayMinutes * BarsPerMinute(resolution)
      asc == [k \in 1..n |-> Bar(resolution, date, o.path, k - 1)]
  IN CASE o.layout = "rev" -> Reverse(asc)
       [] o.layout = "dup" ->
            << [time |-> asc[1].time - (60 \div BarsPerMinute(resolution)),
                close |-> asc[1].close + 1] >> \o asc
       [] OTHER -> asc

\* ------------------------------------------------------------ process_data
\* DataFrame.sort_index on the time index: a frame whose index is already
\* non-decreasing is returned as it is; otherwise the rows are argsorted with the
\* default kind (quicksort), which is not stable, so rows of equal time may come
\* out in any order.
IsMonotonic(s) == \A i \in 1..(Len(s) - 1) : s[i].time <= s[i + 1].time

InsertAt(s, k, x) == SubSeq(s, 1, k) \o <<x>> \o SubSeq(s, k + 1, Len(s))

SortedInsertions(s, x) ==
  { InsertAt(s, k, x) :
      k \in { k \in 0..Len(s) :
                /\ \A j \in 1..k : s[j].time <= x.time
                /\ \A j \in (k + 1)..Len(s) : x.time <= s[j].time } }

RECURSIVE AllSorts(_)
AllSorts(s) ==
  IF s = <<>> THEN { <<>> }
  ELSE UNION { SortedInsertions(t, s[Len(s)]) : t \in AllSorts(SubSeq(s, 1, Len(s) - 1)) }

sort_index(s) == IF IsMonotonic(s) THEN { s } ELSE AllSorts(s)

\* factor_of without the "1s" branch.
factor_of_minutes_only(resolution) == 1

\* Bars per minute process_data assumes for a resolution.
factor_of(resolution) ==
  IF resolution = "1m" THEN 1
  ELSE IF resolution = "1s" THEN 60
  ELSE 1

\* The frame with its three return columns.
with_returns(rows, f) ==
  LET close == [i \in 1..Len(rows) |-> rows[i].close]
      r5 == pct_change(close, 5 * f)
      r10 == pct_change(close, 10 * f)
      r15 == pct_change(close, 15 * f)
  IN [i \in 1..Len(rows) |->
        [time |-> rows[i].time, close |-> rows[i].close,
         ret_5m |-> r5[i], ret_10m |-> r10[i], ret_15m |-> r15[i]]]

\* process_data returns None or a DataFrame.
NoneFrame == [is_none |-> TRUE, rows |-> <<>>]
Frame(rows) == [is_none |-> FALSE, rows |-> rows]

\* ------------------------------------------------------------ analyze_volatility
\* The mask with > in place of >=.
select_events_strict(rows, window_col) ==
  SelectSeq(rows, LAMBDA row : Gt(Abs(row[window_col]), Milli(5)))

\* df[df[window_col].abs() >= 0.005]: the rows of the mask, in frame order.
select_events(rows, window_col) ==
  SelectSeq(rows, LAMBDA row : Ge(Abs(row[window_col]), Milli(5)))

buckets ==
  << [low |-> Milli(5),  high |-> Milli(6),  label |-> "0.5% - 0.6%"],
     [low |-> Milli(6),  high |-> Milli(7),  label |-> "0.6% - 0.7%"],
     [low |-> Milli(7),  high |-> Milli(8),  label |-> "0.7% - 0.8%"],
     [low |-> Milli(8),  high |-> Milli(9),  label |-> "0.8% - 0.9%"],
     [low |-> Milli(9),  high |-> Milli(10), label |-> "0.9% - 1.0%"],
     [low |-> Milli(10), high |-> Milli(15), label |-> "1.0% - 1.5%"],
     [low |-> Milli(15), high |-> Milli(20), label |-> "1.5% - 2.0%"],
     [low |-> Milli(20), high |-> PosInf,    label |-> "> 2.0%"] >>

is_pump(r, b) == Ge(r, b.low) /\ Lt(r, b.high)
is_dump(r, b) == Le(r, Neg(b.low)) /\ Gt(r, Neg(b.high))

bucket_rows(events, window_col) ==
  [b \in 1..Len(buckets) |->
     [Bucket |-> buckets[b].label,
      Pumps |-> Len(SelectSeq(events, LAMBDA row : is_pump(row[window_col], buckets[b]))),
      Dumps |-> Len(SelectSeq(events, LAMBDA row : is_dump(row[window_col], buckets[b])))]]

\* analyze_volatility without the early return for no events.
analyze_volatility_zero_table(rows, window_col) ==
  bucket_rows(select_events(rows, window_col), window_col)

analyze_volatility(rows, window_col) ==
  LET ev == select_events(rows, window_col)
  IN IF ev = <<>> THEN <<>> ELSE bucket_rows(ev, window_col)

\* generate_plot_base64: None for no results, otherwise the encoded chart of
\* the rows (a non-empty string, a function of the rows).
generate_plot_base64(results) ==
  IF results = <<>> THEN [is_none |-> TRUE, chart |-> <<>>]
  ELSE [is_none |-> FALSE, chart |-> results]

\* ------------------------------------------------------------ state
VARIABLES
  creds,          \* API_KEY and API_URL are both set
  api,            \* (symbol, resolution) -> the outcome of each date's request
  mode,           \* "main": main() runs; "unit": one process_data call, then
                  \* analyze_volatility on its frame for each window
  pc,             \* position in main / process_data
  symIdx,         \* main: index into SYMBOLS
  resolution,     \* process_data: its resolution argument
  dateIdx,        \* process_data: index into dates
  all_candles,    \* process_data: the records accumulated so far
  factor,         \* process_data: bars per minute (0 until it is set)
  df,             \* what the last process_data call returned
  df_1m, df_1s,   \* main: the two frames of the current symbol
  winIdx,         \* index into windows
  events,         \* analyze_volatility: the filtered rows of its last call
  results,        \* what the last analyze_volatility call returned
  console,        \* the lines printed so far
  symbol_html,    \* main: the current symbol's section
  html_sections,  \* main: the finished sections
  html_content    \* main: the written report (<<>> until written)

vars == << creds, api, mode, pc, symIdx, resolution, dateIdx, all_candles, factor,
           df, df_1m, df_1s, winIdx, events, results, console, symbol_html,
           html_sections, html_content >>

dates == get_date_range(START_DATE, END_DATE)
symbol == SYMBOLS[symIdx]

\* A printed line.
Line(kind, sym, res, date, table) ==
  [kind |-> kind, sym |-> sym, res |-> res, date |-> date, table |-> table]

\* fetch_candle_data letting a failed request raise.
fetch_candle_data_reraise(sym, date, res) ==
  IF ~creds \/ api[<<sym, res>>][date - START_DATE + 1].kind = "error"
    THEN [raised |-> TRUE, data |-> <<>>, printed |-> <<>>]
    ELSE [raised |-> FALSE,
          data |-> Candles(res, date, api[<<sym, res>>][date - START_DATE + 1]),
          printed |-> <<>>]

\* fetch_candle_data: raises ValueError without credentials; a failed request is
\* caught, printed, and answered with the empty list.
fetch_candle_data(sym, date, res) ==
  IF ~creds
    THEN [raised |-> TRUE, data |-> <<>>, printed |-> <<>>]
    ELSE LET o == api[<<sym, res>>][date - START_DATE + 1]
         IN IF o.kind = "error"
              THEN [raised |-> FALSE, data |-> <<>>,
                    printed |-> << Line("Error fetching data", sym, res, date, <<>>) >>]
              ELSE [raised |-> FALSE, data |-> Candles(res, date, o), printed |-> <<>>]

\* ------------------------------------------------------------ process_data
\* main: df = process_data(symbol, res), up to the date loop.
CallProcessData(res) ==
  /\ mode = "main"
  /\ pc = (IF res = "1m" THEN "call_1m" ELSE "call_1s")
  /\ resolution' = res
  /\ all_candles' = <<>>
  /\ dateIdx' = 1
  /\ console' = Append(console, Line("Processing", symbol, res, 0, <<>>))
  /\ pc' = "fetch"
  /\ UNCHANGED << creds, api, mode, symIdx, factor, df, df_1m, df_1s, winIdx, events,
                  results, symbol_html, html_sections, html_content >>

\* One iteration of the date loop.
FetchDay ==
  /\ pc = "fetch"
  /\ dateIdx <= Len(dates)
  /\ LET date == dates[dateIdx]
         got == fetch_candle_data(symbol, date, resolution)
         fetching == Append(console, Line("Fetching", symbol, resolution, date, <<>>))
     IN IF got.raised
          THEN /\ pc' = "raised"
               /\ console' = fetching
               /\ UNCHANGED << all_candles, dateIdx >>
          ELSE /\ all_candles' = all_candles \o got.data
               /\ console' = fetching \o got.printed
               /\ dateIdx' = dateIdx + 1
               /\ pc' = (IF dateIdx = Len(dates) THEN "build" ELSE "fetch")
  /\ UNCHANGED << creds, api, mode, symIdx, resolution, factor, df, df_1m, df_1s,
                  winIdx, events, results, symbol_html, html_sections, html_content >>

\* The rest of process_data, and the caller's assignment of what it returns.
FinishProcessData ==
  /\ pc = "build"
  /\ \E frame \in (IF all_candles = <<>> THEN { NoneFrame }
                   ELSE { Frame(with_returns(s, factor_of(resolution))) :
                            s \in sort_index(all_candles) }) :
       /\ df' = frame
       /\ df_1m' = (IF mode = "main" /\ resolution = "1m" THEN frame ELSE df_1m)
       /\ df_1s' = (IF mode = "main" /\ resolution = "1s" THEN frame ELSE df_1s)
       /\ pc' = (IF mode = "main"
                   THEN (IF resolution = "1m" THEN "call_1s" ELSE "check")
                   ELSE (IF frame.is_none THEN "done" ELSE "analyze"))
  /\ factor' = (IF all_candles = <<>> THEN factor ELSE factor_of(resolution))
  /\ console' = (IF all_candles = <<>>
                   THEN Append(console, Line("No data found", symbol, resolution, 0, <<>>))
                   ELSE console)
  /\ winIdx' = 1
  /\ UNCHANGED << creds, api, mode, symIdx, resolution, dateIdx, all_candles, events,
                  results, symbol_html, html_sections, html_content >>

\* unit: analyze_volatility(df, win_col) for the next window.
UnitAnalyze ==
  /\ mode = "unit"
  /\ pc = "analyze"
  /\ events' = select_events(df.rows, windows[winIdx].col)
  /\ results' = analyze_volatility(df.rows, windows[winIdx].col)
  /\ winIdx' = winIdx + 1
  /\ pc' = (IF winIdx = Len(windows) THEN "done" ELSE "analyze")
  /\ UNCHANGED << creds, api, mode, symIdx, resolution, dateIdx, all_candles, factor,
                  df, df_1m, df_1s, console, symbol_html, html_sections, html_content >>

\* ------------------------------------------------------------ main
\* A piece of the report.
Frag(tag, res, text, chart) == [tag |-> tag, res |-> res, text |-> text, chart |-> chart]

\* The symbol loop moves on, or ends.
NextSymbol ==
  IF symIdx = Len(SYMBOLS)
    THEN pc' = "write" /\ symIdx' = symIdx
    ELSE pc' = "call_1m" /\ symIdx' = symIdx + 1

\* Both frames are None: the symbol is skipped.
SkipSymbol ==
  /\ pc = "check"
  /\ df_1m.is_none /\ df_1s.is_none
  /\ NextSymbol
  /\ UNCHANGED << creds, api, mode, resolution, dateIdx, all_candles, factor, df, df_1m,
                  df_1s, winIdx, events, results, console, symbol_html, html_sections,
                  html_content >>

\* Otherwise the symbol's report begins.
BeginReport ==
  /\ pc = "check"
  /\ ~(df_1m.is_none /\ df_1s.is_none)
  /\ console' = Append(console, Line("REPORT", symbol, "", 0, <<>>))
  /\ symbol_html' = << Frag("h2", "", symbol, <<>>) >>
  /\ winIdx' = 1
  /\ pc' = "win_1m"
  /\ UNCHANGED << creds, api, mode, symIdx, resolution, dateIdx, all_candles, factor, df,
                  df_1m, df_1s, events, results, html_sections, html_content >>

\* What one resolution's half of a window iteration prints and adds to the section:
\* frame is df_1m or df_1s.
WindowHalf(frame, res, win) ==
  LET res_rows == IF frame.is_none THEN <<>> ELSE analyze_volatility(frame.rows, win.col)
      plot == IF frame.is_none THEN generate_plot_base64(<<>>)
              ELSE generate_plot_base64(res_rows)
      printed == IF frame.is_none THEN <<>>
                 ELSE << Line("window", win.title, res, 0, <<>>),
                         IF res_rows # <<>>
                           THEN Line("table", "", res, 0, res_rows)
                           ELSE Line("No events found.", "", res, 0, <<>>) >>
      html == IF ~plot.is_none
                THEN << Frag("div", res, "img", plot.chart) >>
                ELSE << Frag("div", res, "No events found.", <<>>) >>
  IN [results |-> res_rows, printed |-> printed, html |-> html]

\* A window iteration, 1m analysis.
Analyze1m ==
  /\ pc = "win_1m"
  /\ LET win == windows[winIdx]
         half == WindowHalf(df_1m, "1m", win)
     IN /\ events' = (IF df_1m.is_none THEN events ELSE select_events(df_1m.rows, win.col))
        /\ results' = (IF df_1m.is_none THEN results ELSE half.results)
        /\ console' = console \o half.printed
        /\ symbol_html' = symbol_html \o << Frag("h3", "", win.title, <<>>) >> \o half.html
  /\ pc' = "win_1s"
  /\ UNCHANGED << creds, api, mode, symIdx, resolution, dateIdx, all_candles, factor, df,
                  df_1m, df_1s, winIdx, html_sections, html_content >>

\* A window iteration, 1s analysis; then the next window.
Analyze1s ==
  /\ pc = "win_1s"
  /\ LET win == windows[winIdx]
         half == WindowHalf(df_1s, "1s", win)
     IN /\ events' = (IF df_1s.is_none THEN events ELSE select_events(df_1s.rows, win.col))
        /\ results' = (IF df_1s.is_none THEN results ELSE half.results)
        /\ console' = console \o half.printed
        /\ symbol_html' = symbol_html \o half.html \o << Frag("hr", "", "", <<>>) >>
  /\ IF winIdx = Len(windows)
       THEN pc' = "append" /\ winIdx' = winIdx
       ELSE pc' = "win_1m" /\ winIdx' = winIdx + 1
  /\ UNCHANGED << creds, api, mode, symIdx, resolution, dateIdx, all_candles, factor, df,
                  df_1m, df_1s, html_sections, html_content >>

\* html_sections.append(symbol_html), and the next symbol.
AppendSection ==
  /\ pc = "append"
  /\ html_sections' = Append(html_sections, symbol_html)
  /\ NextSymbol
  /\ UNCHANGED << creds, api, mode, resolution, dateIdx, all_candles, factor, df, df_1m,
                  df_1s, winIdx, events, results, console, symbol_html, html_content >>

\* The report is written and opened.
WriteReport ==
  /\ pc = "write"
  /\ html_content' = << Frag("h1", "", "Volatility Analysis Report", <<>>) >> \o html_sections
  /\ console' = Append(console, Line("Report saved", "", "", 0, <<>>))
  /\ pc' = "done"
  /\ UNCHANGED << creds, api, mode, symIdx, resolution, dateIdx, all_candles, factor, df,
                  df_1m, df_1s, winIdx, events, results, symbol_html, html_sections >>

\* ------------------------------------------------------------ specifications
\* main starts with the credentials loaded from the environment, or missing (its
\* warning about a missing .env file is not modelled).
\* What the API answers over the date range, for main: every request fails; only
\* the first day answers (a quiet day); three quiet days; a quiet day, a day of
\* moves (with a zero close), a quiet day.
AllFail == [i \in 1..Len(dates) |-> Err]
ShortQuiet == [i \in 1..Len(dates) |-> IF i = 1 THEN Ok("flat", "asc") ELSE Err]
Quiet == [i \in 1..Len(dates) |-> Ok("flat", "asc")]
Active == [i \in 1..Len(dates) |-> IF i = 2 THEN Ok("mixA", "asc") ELSE Ok("flat", "asc")]
MainProfiles == { AllFail, ShortQuiet, Quiet, Active }
MainRequests == { <<SYMBOLS[i], r>> : i \in 1..Len(SYMBOLS), r \in {"1m", "1s"} }

\* One day's outcomes for a single process_data call.
Menu(res) ==
  { Err } \cup { Ok(p, "asc") : p \in {"flat", "ramp", "mixA", "mixB"} }
          \cup (IF res = "1s" THEN {} ELSE { Ok("flat", "rev"), Ok("mixA", "dup") })
UnitResolutions == {"1m", "1s", "1h"}

InitLocals ==
  /\ symIdx = 1
  /\ dateIdx = 1
  /\ all_candles = <<>>
  /\ factor = 0
  /\ df = NoneFrame /\ df_1m = NoneFrame /\ df_1s = NoneFrame
  /\ winIdx = 1
  /\ events = <<>> /\ results = <<>>
  /\ symbol_html = <<>> /\ html_sections = <<>> /\ html_content = <<>>

Init ==
  /\ mode = "main"
  /\ pc = "call_1m"
  /\ creds \in BOOLEAN
  /\ api \in [MainRequests -> MainProfiles]
  /\ resolution = "1m"
  /\ console = <<>>
  /\ InitLocals

Next ==
  \/ \E res \in {"1m", "1s"} : CallProcessData(res)
  \/ FetchDay
  \/ FinishProcessData
  \/ SkipSymbol
  \/ BeginReport
  \/ Analyze1m
  \/ Analyze1s
  \/ AppendSection
  \/ WriteReport

Spec == Init /\ [][Next]_vars

\* A single call process_data(SYMBOLS[1], resolution), then analyze_volatility on
\* the frame it returns, window by window.
InitUnit ==
  /\ mode = "unit"
  /\ pc = "fetch"
  /\ creds \in BOOLEAN
  /\ resolution \in UnitResolutions
  /\ api \in { (<<SYMBOLS[1], resolution>> :> o) : o \in [1..Len(dates) -> Menu(resolution)] }
  /\ console = << Line("Processing", SYMBOLS[1], resolution, 0, <<>>) >>
  /\ InitLocals

NextUnit ==
  \/ FetchDay
  \/ FinishProcessData
  \/ UnitAnalyze

SpecUnit == InitUnit /\ [][NextUnit]_vars

\* ------------------------------------------------------------ properties
\* Helpers of the properties below.
Built == pc \in {"analyze", "done"} /\ ~df.is_none
Analysed == mode = "unit" /\ winIdx > 1
LastCol == windows[winIdx - 1].col
\* r is exactly n/d (d # 0).
IsRatio(r, n, d) == r.kind = "num" /\ r.num * d = n * r.den
\* |r| >= 5/1000 for a value that is not NaN, by cross-multiplication.
MeetsThreshold(r) ==
  /\ r.kind # "nan"
  /\ \/ r.kind = "inf"
     \/ (IF r.num < 0 THEN -r.num ELSE r.num) * 1000 >= 5 * r.den
RECURSIVE SumOf(_, _)
SumOf(f, n) == IF n = 0 THEN 0 ELSE f[n] + SumOf(f, n - 1)

\* C1: every return that is not NaN and has |r| >= 0.005 is counted by exactly one
\* bucket row and one side of it: the row with low <= |r| < high (the last one
\* unbounded above), as a pump if r > 0 and as a dump if r < 0.
C1_EveryEventInExactlyOneBucket ==
  Analysed =>
    \A i \in 1..Len(df.rows) :
      LET r == df.rows[i][LastCol]
          pumpRows == { b \in 1..Len(buckets) : is_pump(r, buckets[b]) }
          dumpRows == { b \in 1..Len(buckets) : is_dump(r, buckets[b]) }
      IN MeetsThreshold(r) =>
           /\ Cardinality(pumpRows) + Cardinality(dumpRows) = 1
           /\ \A b \in pumpRows \cup dumpRows :
                /\ Le(buckets[b].low, Abs(r))
                /\ b < Len(buckets) => Lt(Abs(r), buckets[b].high)
           /\ pumpRows # {} <=> Gt(r, Milli(0))

\* C2: a non-empty event set gives exactly 8 rows in the declared bucket order, and
\* the Pumps and Dumps counts add up to the number of events.
C2_EightRowsSumToEvents ==
  (Analysed /\ events # <<>>) =>
    /\ Len(results) = 8
    /\ \A b \in 1..Len(results) : results[b].Bucket = buckets[b].label
    /\ SumOf([b \in 1..Len(results) |-> results[b].Pumps + results[b].Dumps], Len(results))
         = Len(events)

\* C4: a return whose reference close is zero is "no value" (never an infinity) and
\* is not among the events.
C4_ZeroReferenceIsNoValue ==
  Built =>
    \A w \in 1..Len(windows) : \A i \in 1..Len(df.rows) :
      LET wb == windows[w].minutes * factor
      IN (i > wb /\ df.rows[i - wb].close = 0) =>
           /\ IsNaN(df.rows[i][windows[w].col])
           /\ ~MeetsThreshold(df.rows[i][windows[w].col])

\* C5: the built series has strictly increasing timestamps: sorted, and no
\* timestamp twice.
C5_StrictlyIncreasingTimes ==
  Built => \A i \in 1..(Len(df.rows) - 1) : df.rows[i].time < df.rows[i + 1].time

\* C3: position i of each return column holds (close[i] - close[i - window_bars]) /
\* close[i - window_bars] for i past the first window_bars rows, window_bars =
\* minutes x factor, and no value for the first window_bars rows; the offset counts
\* rows of the sorted series, whatever their timestamps.
C3_ReturnsByBarOffset ==
  Built =>
    \A w \in 1..Len(windows) : \A i \in 1..Len(df.rows) :
      LET window_bars == windows[w].minutes * factor
          r == df.rows[i][windows[w].col]
      IN /\ i <= window_bars => IsNaN(r)
         /\ (i > window_bars /\ df.rows[i - window_bars].close # 0) =>
              IsRatio(r, df.rows[i].close - df.rows[i - window_bars].close,
                      df.rows[i - window_bars].close)

\* C3 witness: closes 100..105 at 1m give ret_5m = 0.05 at the sixth row and no value
\* before it, and a later row is compared with a row more than 5 minutes older.
C3_Witness ==
  /\ Built /\ resolution = "1m" /\ Len(df.rows) > 6
  /\ \A i \in 1..6 : df.rows[i].close = 99 + i
  /\ \A i \in 1..5 : IsNaN(df.rows[i].ret_5m)
  /\ IsRatio(df.rows[6].ret_5m, 5, 100)
  /\ \E i \in 7..Len(df.rows) :
       /\ df.rows[i].time - df.rows[i - 5].time > 300
       /\ ~IsNaN(df.rows[i].ret_5m)

Offset(res, col) ==
  IF res = "1s"
    THEN (CASE col = "ret_5m" -> 300 [] col = "ret_10m" -> 600 [] OTHER -> 900)
    ELSE (CASE col = "ret_5m" -> 5 [] col = "ret_10m" -> 10 [] OTHER -> 15)

\* C10: factor is 1 at "1m", 60 at "1s" and 1 at any other resolution, so the
\* columns look back 5, 10, 15 rows, or 300, 600, 900 rows at "1s".
C10_FactorByResolution ==
  Built =>
    /\ factor = (IF resolution = "1s" THEN 60 ELSE 1)
    /\ \A w \in 1..Len(windows) : \A i \in 1..Len(df.rows) :
         LET off == Offset(resolution, windows[w].col)
             r == df.rows[i][windows[w].col]
         IN /\ i <= off => IsNaN(r)
            /\ (i > off /\ df.rows[i - off].close # 0) =>
                 IsRatio(r, df.rows[i].close - df.rows[i - off].close,
                         df.rows[i - off].close)

\* C10 witness: at "1s" the first rows with a value are rows 301, 601 and 901.
C10_Witness ==
  /\ Built /\ resolution = "1s" /\ factor = 60 /\ Len(df.rows) > 900
  /\ IsNaN(df.rows[300].ret_5m) /\ ~IsNaN(df.rows[301].ret_5m)
  /\ IsNaN(df.rows[600].ret_10m) /\ ~IsNaN(df.rows[601].ret_10m)
  /\ IsNaN(df.rows[900].ret_15m) /\ ~IsNaN(df.rows[901].ret_15m)

\* What the API was asked for the current process_data call, and the records the
\* first k dates hand over when every failed request counts for nothing.
Outcome(k) == api[<<symbol, resolution>>][k]
RECURSIVE ExpectedCandles(_)
ExpectedCandles(k) ==
  IF k = 0 THEN <<>>
  ELSE ExpectedCandles(k - 1)
         \o (IF Outcome(k).kind = "error" THEN <<>>
             ELSE Candles(resolution, dates[k], Outcome(k)))
Accumulated ==
  /\ pc = "fetch" => all_candles = ExpectedCandles(dateIdx - 1)
  /\ pc \in {"build", "analyze", "done"} => all_candles = ExpectedCandles(Len(dates))
  /\ (pc \in {"analyze", "done"} /\ \A k \in 1..Len(dates) : Outcome(k).kind = "error")
       => (df.is_none /\ pc = "done")

\* C9 as stated: nothing raises out of process_data, whatever the fetches do; a
\* failed fetch adds no bars, the other days' bars accumulate in date order, and
\* when every day fails the result is None.
C9_NothingRaises ==
  /\ pc # "raised"
  /\ Accumulated

\* C9 amended: with the credentials set, no failed request raises out of
\* process_data (a failed fetch adds no bars, the other days' bars accumulate in
\* date order, every day failing gives None); without them the first fetch raises
\* before any bar is accumulated.
C9_RequestFailuresDoNotRaise ==
  /\ creds => (pc # "raised" /\ Accumulated)
  /\ (~creds /\ pc # "fetch") => (pc = "raised" /\ all_candles = <<>>)

\* C9 witness: the second day's request failed between two that answered, and the
\* loop ended with the two days' bars.
C9_Witness ==
  /\ creds /\ pc = "build"
  /\ Outcome(1).kind = "ok" /\ Outcome(2).kind = "error" /\ Outcome(3).kind = "ok"
  /\ all_candles = Candles(resolution, dates[1], Outcome(1))
                     \o Candles(resolution, dates[3], Outcome(3))

\* The half of a window iteration that has just run, in main: its resolution, frame
\* and window.
After1m == mode = "main" /\ pc = "win_1s"
After1s == mode = "main" /\ ((pc = "win_1m" /\ winIdx > 1) \/ pc = "append")
WinOf1s == IF pc = "append" THEN windows[winIdx] ELSE windows[winIdx - 1]
NoRowQualifies(frame, col) ==
  \A i \in 1..Len(frame.rows) : ~MeetsThreshold(frame.rows[i][col])
NoEventsDiv(res) == Frag("div", res, "No events found.", <<>>)

\* C7: when every fetch gives zero bars process_data returns None without raising,
\* and main does not render a resolution without data the way it renders one
\* without events.
C7_NoDataRenderedApart ==
  /\ (mode = "main" /\ creds /\ pc \in {"call_1s", "check"}
        /\ \A k \in 1..Len(dates) : Outcome(k).kind = "error")
       => (df.is_none /\ console[Len(console)].kind = "No data found")
  /\ (After1m /\ df_1m.is_none) => symbol_html[Len(symbol_html)] # NoEventsDiv("1m")
  /\ (After1s /\ df_1s.is_none) => symbol_html[Len(symbol_html) - 1] # NoEventsDiv("1s")

\* C8: when no row of a frame qualifies as an event for the window,
\* analyze_volatility returns the empty list and main prints and writes "No events
\* found.", not a table.
C8_NoEventsRendered ==
  /\ (After1m /\ ~df_1m.is_none /\ NoRowQualifies(df_1m, windows[winIdx].col)) =>
       /\ results = <<>>
       /\ console[Len(console)].kind = "No events found."
       /\ symbol_html[Len(symbol_html)] = NoEventsDiv("1m")
  /\ (After1s /\ ~df_1s.is_none /\ NoRowQualifies(df_1s, WinOf1s.col)) =>
       /\ results = <<>>
       /\ console[Len(console)].kind = "No events found."
       /\ symbol_html[Len(symbol_html) - 1] = NoEventsDiv("1s")

\* C8 witness: a 1m series shorter than the 10-minute window, rendered as "No events
\* found.".
C8_Witness ==
  /\ After1m /\ winIdx = 2
  /\ ~df_1m.is_none /\ Len(df_1m.rows) < 10 * factor_of("1m")
  /\ \A i \in 1..Len(df_1m.rows) : IsNaN(df_1m.rows[i].ret_10m)
  /\ results = <<>>
  /\ console[Len(console)].kind = "No events found."
  /\ symbol_html[Len(symbol_html)] = NoEventsDiv("1m")

====
